---- MODULE Spec2Model ----
(***************************************************************************)
(* Model of src/client/common/interpreterPathService.ts:                   *)
(* InterpreterPathService resolves the interpreter path of a resource over *)
(* the layers WorkspaceFolder > Workspace > Global > default, persists     *)
(* workspace-level overrides in a key-value store and notifies listeners.  *)
(***************************************************************************)
EXTENDS FiniteSets, Integers, Sequences, TLC

----------------------------------------------------------------------------
(* JavaScript values.  An optional value is either `undefined` or a        *)
(* defined record.  A string is a sequence of tokens, '' is <<>>.           *)

undefined == [defined |-> FALSE]

Str(tokens) == [defined |-> TRUE, v |-> tokens]

\* A Uri: the workspace folder it lies in and the name below that folder
\* (name "" is the folder itself).
Uri(folder, name) == [defined |-> TRUE, folder |-> folder, name |-> name]

\* JavaScript truthiness of an optional string or Uri: undefined and ''
\* are falsy.
Truthy(x) == IF x = undefined THEN FALSE
             ELSE IF "v" \in DOMAIN x THEN x.v # <<>> ELSE TRUE

\* a || b
Or(a, b) == IF Truthy(a) THEN a ELSE b

ConfigurationTarget == {"Global", "Workspace", "WorkspaceFolder"}

----------------------------------------------------------------------------
(* Bounds and input domains.                                               *)

\* Most change events that may be fired, suspended or queued in a behaviour.
MaxEvents == 2

WorkspaceFolderToken == "${workspaceFolder}"

Empty == Str(<<>>)
PathA == Str(<<WorkspaceFolderToken, "/venv/bin/python">>)
PathB == Str(<<"/usr/bin/python3">>)
CiPath == Str(<<"/ci/python">>)

\* Values of the setting: unset, '', a path with a variable, a plain path.
PythonPaths == {undefined, Empty, PathA, PathB}

Folders == {"/f1", "/f2"}

WorkspaceFilePath == "/w.code-workspace"

\* Resources handed to the service: none, a file in either folder, and a
\* file outside every folder.
Resources == {undefined, Uri("/f1", "a.py"), Uri("/f2", "b.py"), Uri("/tmp", "c.py")}

\* The workspaces the host may have open: nothing, an empty workspace file,
\* a single folder, a workspace file with one or two folders.
Workspaces ==
    { [workspaceFolders |-> <<>>, workspaceFile |-> undefined,
       isCaseInsensitive |-> FALSE],
      [workspaceFolders |-> <<>>, workspaceFile |-> Str(<<WorkspaceFilePath>>),
       isCaseInsensitive |-> FALSE],
      [workspaceFolders |-> <<"/f1">>, workspaceFile |-> undefined,
       isCaseInsensitive |-> FALSE],
      [workspaceFolders |-> <<"/f1">>, workspaceFile |-> Str(<<WorkspaceFilePath>>),
       isCaseInsensitive |-> TRUE],
      [workspaceFolders |-> <<"/f2", "/f1">>,
       workspaceFile |-> Str(<<WorkspaceFilePath>>),
       isCaseInsensitive |-> FALSE] }

\* The process environments: test mode or not, CI_PYTHON_PATH unset or set,
\* and whether the file it names exists.
Processes ==
    { [isTestExecution |-> FALSE, CI_PYTHON_PATH |-> CiPath, existsSync |-> TRUE],
      [isTestExecution |-> TRUE, CI_PYTHON_PATH |-> undefined, existsSync |-> FALSE],
      [isTestExecution |-> TRUE, CI_PYTHON_PATH |-> CiPath, existsSync |-> FALSE],
      [isTestExecution |-> TRUE, CI_PYTHON_PATH |-> CiPath, existsSync |-> TRUE] }

ToUpperCase == [s \in Folders \cup {WorkspaceFilePath} |->
                  CASE s = "/f1" -> "/F1"
                    [] s = "/f2" -> "/F2"
                    [] OTHER -> "/W.CODE-WORKSPACE"]

FolderKeys == Folders \cup {ToUpperCase[f] : f \in Folders} \cup {""}

WorkspaceFileKeys == {WorkspaceFilePath, ToUpperCase[WorkspaceFilePath]}

\* Every key getSettingKey can derive.
SettingKeys ==
    {<<"WORKSPACE_FOLDER_INTERPRETER_PATH_", k>> : k \in FolderKeys}
    \cup {<<"WORKSPACE_INTERPRETER_PATH_", k>> : k \in WorkspaceFileKeys}

----------------------------------------------------------------------------
(* State.                                                                  *)

VARIABLES
    workspace,      \* IWorkspaceService: open folders and workspace file
    process,        \* isTestExecution(), process.env.CI_PYTHON_PATH, fs
    configuration,  \* host value of python.defaultInterpreterPath per scope
    storage,        \* persisted key-value store behind IPersistentStateFactory
    suspended,      \* update calls waiting at `await updateValue`
    hostEvents,     \* ConfigurationChangeEvents the host has yet to deliver
    fired,          \* events fired on _didChangeInterpreterEmitter, in order
    changed,        \* per key, how often the persisted value changed
    traceErrors,    \* number of messages logged with traceError
    lastOp          \* the operation that ran last, with inputs and result

vars == <<workspace, process, configuration, storage, suspended, hostEvents,
          fired, changed, traceErrors, lastOp>>

----------------------------------------------------------------------------
(* Collaborators.                                                          *)

OpenFolders == {workspace.workspaceFolders[i] : i \in DOMAIN workspace.workspaceFolders}

\* IWorkspaceService.getWorkspaceFolder: the open folder containing the uri.
getWorkspaceFolder(uri) ==
    IF uri # undefined /\ uri.folder \in OpenFolders
    THEN Uri(uri.folder, "") ELSE undefined

\* PythonSettings.getSettingsUriAndTarget(resource, workspaceService).uri:
\* the folder of the resource, else the first open folder, else undefined.
getSettingsUri(resource) ==
    LET workspaceFolder == getWorkspaceFolder(resource)
    IN  IF workspaceFolder # undefined THEN workspaceFolder
        ELSE IF Len(workspace.workspaceFolders) > 0
             THEN Uri(workspace.workspaceFolders[1], "")
             ELSE undefined

\* FileSystemPaths.normCase on the paths of the model.
normCase(path) == IF workspace.isCaseInsensitive THEN ToUpperCase[path] ELSE path

\* IWorkspaceService.getWorkspaceFolderIdentifier(resource), default ''.
getWorkspaceFolderIdentifier(resource) ==
    LET workspaceFolder == getWorkspaceFolder(resource)
    IN  IF workspaceFolder # undefined THEN normCase(workspaceFolder.folder) ELSE ""

\* getConfiguration('python', resource).inspect('defaultInterpreterPath')
hostInspect(resource) ==
    [globalValue |-> configuration.globalValue,
     workspaceValue |-> configuration.workspaceValue,
     workspaceFolderValue |->
        IF getWorkspaceFolder(resource) # undefined
        THEN configuration.workspaceFolderValue[resource.folder]
        ELSE undefined]

\* createGlobalPersistentState(key, undefined).value
persistentValue(key) == storage[key]

\* SystemVariables.resolveAny: a string has every ${workspaceFolder}
\* replaced by the root folder (the module directory when there is none);
\* a value that is not a string is returned as it is.
resolveAny(value, rootFolder) ==
    IF value = undefined THEN undefined
    ELSE LET root == IF rootFolder # undefined THEN rootFolder.folder ELSE "__dirname"
         IN  Str([i \in DOMAIN value.v |->
                    IF value.v[i] = WorkspaceFolderToken THEN root ELSE value.v[i]])

----------------------------------------------------------------------------
(* The service.                                                            *)

getCIPythonPathNoFallback == process.CI_PYTHON_PATH

getCIPythonPath ==
    IF Truthy(process.CI_PYTHON_PATH) /\ process.existsSync
    THEN process.CI_PYTHON_PATH
    ELSE Str(<<"python">>)

CI_PYTHON_PATH == getCIPythonPath

\* As getSettingKey, with the folder key used for both scopes.
getSettingKeyFolderOnly(resource, configTarget) ==
    <<"WORKSPACE_FOLDER_INTERPRETER_PATH_", getWorkspaceFolderIdentifier(resource)>>

getSettingKey(resource, configTarget) ==
    LET folderKey == getWorkspaceFolderIdentifier(resource)
    IN  IF configTarget = "WorkspaceFolder"
        THEN <<"WORKSPACE_FOLDER_INTERPRETER_PATH_", folderKey>>
        ELSE IF Truthy(workspace.workspaceFile)
             THEN <<"WORKSPACE_INTERPRETER_PATH_", normCase(workspace.workspaceFile.v[1])>>
             ELSE <<"WORKSPACE_FOLDER_INTERPRETER_PATH_", folderKey>>

\* As inspect, with the host's value preferred to the persisted override.
inspectHostFirst(resource0) ==
    LET resource == getSettingsUri(resource0)
        workspaceFolderSetting ==
            IF Truthy(resource)
            THEN persistentValue(getSettingKey(resource, "WorkspaceFolder"))
            ELSE undefined
        workspaceSetting ==
            IF Truthy(resource)
            THEN persistentValue(getSettingKey(resource, "Workspace"))
            ELSE undefined
        defaultInterpreterPath == hostInspect(resource)
    IN  [globalValue |-> defaultInterpreterPath.globalValue,
         workspaceFolderValue |->
            Or(defaultInterpreterPath.workspaceFolderValue, workspaceFolderSetting),
         workspaceValue |->
            Or(defaultInterpreterPath.workspaceValue, workspaceSetting)]

\* As inspect, with the persisted store also consulted when there is no
\* resource.
inspectNoResourceCheck(resource0) ==
    LET resource == getSettingsUri(resource0)
        workspaceFolderSetting == persistentValue(getSettingKey(resource, "WorkspaceFolder"))
        workspaceSetting == persistentValue(getSettingKey(resource, "Workspace"))
        defaultInterpreterPath == hostInspect(resource)
    IN  [globalValue |-> defaultInterpreterPath.globalValue,
         workspaceFolderValue |->
            Or(workspaceFolderSetting, defaultInterpreterPath.workspaceFolderValue),
         workspaceValue |->
            Or(workspaceSetting, defaultInterpreterPath.workspaceValue)]

inspect(resource0) ==
    LET resource == getSettingsUri(resource0)
        workspaceFolderSetting ==
            IF Truthy(resource)
            THEN persistentValue(getSettingKey(resource, "WorkspaceFolder"))
            ELSE undefined
        workspaceSetting ==
            IF Truthy(resource)
            THEN persistentValue(getSettingKey(resource, "Workspace"))
            ELSE undefined
        defaultInterpreterPath == hostInspect(resource)
    IN  [globalValue |-> defaultInterpreterPath.globalValue,
         workspaceFolderValue |->
            Or(workspaceFolderSetting, defaultInterpreterPath.workspaceFolderValue),
         workspaceValue |->
            Or(workspaceSetting, defaultInterpreterPath.workspaceValue)]

\* As getValue, with the workspace layer tried before the folder layer.
getValueWorkspaceFirst(resource) ==
    LET settings == inspect(resource)
    IN  Or(settings.workspaceValue,
           Or(settings.workspaceFolderValue,
              Or(settings.globalValue,
                 IF process.isTestExecution THEN CI_PYTHON_PATH ELSE Str(<<"python">>))))

\* The value get() resolves before variable expansion, lines 83-87.
getValue(resource) ==
    LET settings == inspect(resource)
    IN  Or(settings.workspaceFolderValue,
           Or(settings.workspaceValue,
              Or(settings.globalValue,
                 IF process.isTestExecution THEN CI_PYTHON_PATH ELSE Str(<<"python">>))))

get(resource) == resolveAny(getValue(resource), getWorkspaceFolder(resource))

----------------------------------------------------------------------------------------------------------------------------------------
(* Operations.                                                             *)

\* As persistedDiffers, with the comparison left out.
persistedAlwaysDiffers(settingKey, pythonPath) == TRUE

\* Line 119: the persisted value differs from the requested one.
persistedDiffers(settingKey, pythonPath) == persistentValue(settingKey) # pythonPath

\* As globalDiffers, with the comparison left out.
globalAlwaysDiffers(pythonPath) == TRUE

\* Lines 104-105: the host's global value differs from the requested one.
globalDiffers(pythonPath) == hostInspect(undefined).globalValue # pythonPath

\* Line 54 and line 121: the payloads handed to the emitter.
globalEvent == [uri |-> undefined, configTarget |-> "Global"]

updateEvent(resource, configTarget) == [uri |-> resource, configTarget |-> configTarget]

\* Events in flight or fired; operations that can add one are bounded by it.
Load == Len(fired) + Len(suspended) + Len(hostEvents) + traceErrors

Inspect(resource) ==
    /\ lastOp' = [op |-> "inspect", resource |-> resource, result |-> inspect(resource)]
    /\ UNCHANGED <<workspace, process, configuration, storage, suspended,
                   hostEvents, fired, changed, traceErrors>>

Get(resource) ==
    /\ lastOp' = [op |-> "get", resource |-> resource,
                  value |-> getValue(resource), result |-> get(resource)]
    /\ UNCHANGED <<workspace, process, configuration, storage, suspended,
                   hostEvents, fired, changed, traceErrors>>

\* WorkspaceConfiguration.update('defaultInterpreterPath', value, true):
\* the host takes the global value and queues its change notification.
hostUpdate(pythonPath) ==
    /\ configuration' = [configuration EXCEPT !.globalValue = pythonPath]
    /\ hostEvents' = Append(hostEvents, [affectsDefaultInterpreterPath |-> TRUE])

\* IPersistentState.updateValue(value): the store takes the value at the
\* call; the returned promise settles later.
updateValue(settingKey, pythonPath) ==
    /\ storage' = [storage EXCEPT ![settingKey] = pythonPath]
    /\ changed' = [changed EXCEPT ![settingKey] =
                      IF storage[settingKey] # pythonPath THEN @ + 1 ELSE @]

\* update() with ConfigurationTarget.Global, lines 102-109.
updateGlobal(pythonPath) ==
    /\ IF globalDiffers(pythonPath)
       THEN hostUpdate(pythonPath)
       ELSE UNCHANGED <<configuration, hostEvents>>
    /\ lastOp' = [op |-> "update", configTarget |-> "Global",
                  outcome |-> IF globalDiffers(pythonPath) THEN "written" ELSE "unchanged"]
    /\ UNCHANGED <<storage, suspended, fired, changed, traceErrors>>

\* As noResource, with the check left out.
noResourceUnchecked(resource) == FALSE

\* Line 110: no resource could be resolved.
noResource(resource) == ~Truthy(resource)

\* update() with no resource, lines 110-113.
updateNoResource(configTarget) ==
    /\ traceErrors' = traceErrors + 1
    /\ lastOp' = [op |-> "update", configTarget |-> configTarget, outcome |-> "noResource"]
    /\ UNCHANGED <<configuration, hostEvents, storage, suspended, fired, changed>>

\* update() from line 114 to the await of line 120: the comparison and the
\* call of updateValue run in one turn, the rest of the function is
\* suspended with its locals.
updatePersisted(resource, configTarget, pythonPath) ==
    LET settingKey == getSettingKey(resource, configTarget)
    IN  /\ IF persistedDiffers(settingKey, pythonPath)
           THEN /\ updateValue(settingKey, pythonPath)
                /\ suspended' = Append(suspended,
                        [resource |-> resource, configTarget |-> configTarget,
                         pythonPath |-> pythonPath, write |-> changed'[settingKey]])
           ELSE UNCHANGED <<storage, changed, suspended>>
        /\ lastOp' = [op |-> "update", configTarget |-> configTarget,
                      outcome |-> IF persistedDiffers(settingKey, pythonPath)
                                  THEN "written" ELSE "unchanged"]
        /\ UNCHANGED <<configuration, hostEvents, fired, traceErrors>>

Update(resource0, configTarget, pythonPath) ==
    LET resource == getSettingsUri(resource0)
    IN  /\ Load < MaxEvents
        /\ IF configTarget = "Global" THEN updateGlobal(pythonPath)
           ELSE IF noResource(resource) THEN updateNoResource(configTarget)
           ELSE updatePersisted(resource, configTarget, pythonPath)
        /\ UNCHANGED <<workspace, process>>

\* update() after the await of line 120: line 121.
UpdateResume(i) ==
    /\ i \in DOMAIN suspended
    /\ fired' = Append(fired, updateEvent(suspended[i].resource, suspended[i].configTarget))
    /\ suspended' = [j \in 1..(Len(suspended) - 1) |->
                        IF j < i THEN suspended[j] ELSE suspended[j + 1]]
    /\ lastOp' = [op |-> "resume", call |-> suspended[i]]
    /\ UNCHANGED <<workspace, process, configuration, storage, hostEvents,
                   changed, traceErrors>>

\* As onDidChangeConfiguration, firing whatever the event affects.
onDidChangeConfigurationAlways(event) == fired' = Append(fired, globalEvent)

\* onDidChangeConfiguration(event), lines 52-56.
onDidChangeConfiguration(event) ==
    IF event.affectsDefaultInterpreterPath
    THEN fired' = Append(fired, globalEvent)
    ELSE UNCHANGED fired

\* The host delivers its oldest configuration-change event to the listener
\* registered at line 48.
HostDeliver ==
    /\ hostEvents # <<>>
    /\ onDidChangeConfiguration(Head(hostEvents))
    /\ hostEvents' = Tail(hostEvents)
    /\ lastOp' = [op |-> "onDidChangeConfiguration", event |-> Head(hostEvents)]
    /\ UNCHANGED <<workspace, process, configuration, storage, suspended,
                   changed, traceErrors>>

\* Some other setting changes in the host.
HostOtherChange ==
    /\ Load < MaxEvents
    /\ hostEvents' = Append(hostEvents, [affectsDefaultInterpreterPath |-> FALSE])
    /\ lastOp' = [op |-> "hostChange"]
    /\ UNCHANGED <<workspace, process, configuration, storage, suspended,
                   fired, changed, traceErrors>>

----------------------------------------------------------------------------
(* Specifications.                                                         *)

\* Host configurations: a folder has a value only while it is open, the
\* workspace only while a folder or a workspace file is open.
Configurations(w) ==
    LET open == {w.workspaceFolders[i] : i \in DOMAIN w.workspaceFolders}
    IN  {c \in [globalValue : PythonPaths, workspaceValue : PythonPaths,
                workspaceFolderValue : [Folders -> PythonPaths]] :
            /\ \A f \in Folders \ open : c.workspaceFolderValue[f] = undefined
            /\ (open = {} /\ w.workspaceFile = undefined) => c.workspaceValue = undefined}

Quiet ==
    /\ suspended = <<>>
    /\ hostEvents = <<>>
    /\ fired = <<>>
    /\ changed = [k \in SettingKeys |-> 0]
    /\ traceErrors = 0
    /\ lastOp = [op |-> "init"]

\* A fresh installation: nothing persisted, no global value; the user's
\* settings leave the workspace and folder layers unset, or set the
\* workspace layer to one path and the layer of every folder to another.
Init ==
    /\ workspace \in Workspaces
    /\ process \in {p \in Processes : ~p.isTestExecution}
    /\ configuration \in {c \in Configurations(workspace) :
            /\ c.globalValue = undefined
            /\ \/ /\ c.workspaceValue = undefined
                  /\ \A f \in Folders : c.workspaceFolderValue[f] = undefined
               \/ /\ c.workspaceValue = PathB
                  /\ \A f \in OpenFolders : c.workspaceFolderValue[f] = PathA}
    /\ storage = [k \in SettingKeys |-> undefined]
    /\ Quiet

Next ==
    \/ \E r \in Resources, t \in ConfigurationTarget, p \in PythonPaths : Update(r, t, p)
    \/ \E i \in 1..MaxEvents : UpdateResume(i)
    \/ HostDeliver
    \/ HostOtherChange

Spec == Init /\ [][Next]_vars

\* The host delivers every notification it has queued, and a suspended
\* update is resumed once its write has completed.
FairSpec == Spec /\ WF_vars(HostDeliver) /\ WF_vars(\E i \in 1..MaxEvents : UpdateResume(i))

\* The keys getSettingKey derives in workspace w.
StorageKeys(w) ==
    LET open == {w.workspaceFolders[i] : i \in DOMAIN w.workspaceFolders}
        norm(p) == IF w.isCaseInsensitive THEN ToUpperCase[p] ELSE p
    IN  {<<"WORKSPACE_FOLDER_INTERPRETER_PATH_", norm(f)>> : f \in open}
        \cup (IF w.workspaceFile # undefined
              THEN {<<"WORKSPACE_INTERPRETER_PATH_", norm(w.workspaceFile.v[1])>>}
              ELSE {})

\* The host configurations and the stores a session may start with: the
\* store survives sessions, so any value may be persisted under the keys of
\* the workspace (under the key of the workspace file also when no folder
\* is open any more).  With two folders open, the host's value for the
\* second folder is unset or one path.
ReadConfigurations(w) ==
    {c \in Configurations(w) :
        Len(w.workspaceFolders) > 1 =>
            c.workspaceFolderValue[w.workspaceFolders[2]] \in {undefined, PathA}}

ReadStorages(w) ==
    {[k \in SettingKeys |-> IF k \in StorageKeys(w) THEN s[k] ELSE undefined] :
        s \in [StorageKeys(w) -> PythonPaths]}

InitRead ==
    /\ workspace \in Workspaces
    /\ process \in Processes
    /\ configuration \in ReadConfigurations(workspace)
    /\ storage \in ReadStorages(workspace)
    /\ Quiet

NextRead ==
    \/ \E r \in Resources : Inspect(r)
    \/ \E r \in Resources : Get(r)

ReadSpec == InitRead /\ [][NextRead]_vars

\* Invariant of Spec: whatever update calls do, the host configuration and
\* the store stay among those ReadSpec starts from.
CoveredByRead ==
    /\ configuration \in ReadConfigurations(workspace)
    /\ storage \in ReadStorages(workspace)

----------------------------------------------------------------------------
(* Properties of get and inspect, checked under ReadSpec.                  *)

Default == IF process.isTestExecution THEN CI_PYTHON_PATH ELSE Str(<<"python">>)

IsString(x) == x # undefined /\ x.defined /\ "v" \in DOMAIN x

IsSet(x) == x # undefined

NonEmpty(x) == x # undefined /\ x # Empty

\* C1: in every state of host configuration and store, for every resource
\* (the absent one included), get returns a defined string, never undefined.
C1_GetNeverUndefined ==
    /\ \A r \in Resources : IsString(get(r))
    /\ lastOp.op = "get" => IsString(lastOp.result)

\* A get that found every layer unset or empty, in test mode with no usable
\* CI path, and returned the default.
C1_Witness ==
    /\ lastOp.op = "get"
    /\ lastOp.resource = undefined
    /\ process.isTestExecution /\ ~process.existsSync
    /\ ~Truthy(inspect(lastOp.resource).workspaceFolderValue)
    /\ ~Truthy(inspect(lastOp.resource).workspaceValue)
    /\ ~Truthy(inspect(lastOp.resource).globalValue)
    /\ lastOp.result = Str(<<"python">>)

\* The first layer, in the order WorkspaceFolder, Workspace, Global, that
\* counts as present, else the default.
Precedence(settings, present(_)) ==
    IF present(settings.workspaceFolderValue) THEN settings.workspaceFolderValue
    ELSE IF present(settings.workspaceValue) THEN settings.workspaceValue
    ELSE IF present(settings.globalValue) THEN settings.globalValue
    ELSE Default

\* C2 as stated: before variable expansion, get returns the first layer
\* that is set, in the order WorkspaceFolder > Workspace > Global > default.
C2_Original ==
    lastOp.op = "get" =>
        lastOp.value = Precedence(inspect(lastOp.resource), IsSet)

\* C2, amended: before variable expansion, get returns the first layer that
\* is set to a non-empty string, in the order WorkspaceFolder > Workspace >
\* Global > default; a layer that is unset or '' is skipped.  The result is
\* that value with its variables expanded.
C2_PrecedenceNonEmpty ==
    lastOp.op = "get" =>
        /\ lastOp.value = Precedence(inspect(lastOp.resource), NonEmpty)
        /\ lastOp.result = resolveAny(lastOp.value, getWorkspaceFolder(lastOp.resource))

\* A get where all three layers hold non-empty values, the folder layer
\* differs from the other two, and the folder layer won.
C2_Witness ==
    /\ lastOp.op = "get"
    /\ NonEmpty(inspect(lastOp.resource).workspaceFolderValue)
    /\ NonEmpty(inspect(lastOp.resource).workspaceValue)
    /\ NonEmpty(inspect(lastOp.resource).globalValue)
    /\ inspect(lastOp.resource).workspaceFolderValue # inspect(lastOp.resource).workspaceValue
    /\ inspect(lastOp.resource).workspaceFolderValue # inspect(lastOp.resource).globalValue
    /\ lastOp.value = inspect(lastOp.resource).workspaceFolderValue

\* What inspect is said to return for one scope: the override persisted
\* under the scope's key when a resource resolves and the override counts
\* as present, else the host's value.
Override(resource0, configTarget, hostValue, present(_)) ==
    LET resource == getSettingsUri(resource0)
    IN  IF resource # undefined /\ present(storage[getSettingKey(resource, configTarget)])
        THEN storage[getSettingKey(resource, configTarget)]
        ELSE hostValue

InspectAs(resource0, present(_)) ==
    LET host == hostInspect(getSettingsUri(resource0))
    IN  [globalValue |-> configuration.globalValue,
         workspaceFolderValue |->
            Override(resource0, "WorkspaceFolder", host.workspaceFolderValue, present),
         workspaceValue |->
            Override(resource0, "Workspace", host.workspaceValue, present)]

\* C5 as stated: for the Workspace and WorkspaceFolder scopes inspect returns
\* the persisted override when one is present, else the host's value;
\* globalValue is the host's; with no resource all three are the host's.
C5_Original ==
    lastOp.op = "inspect" => lastOp.result = InspectAs(lastOp.resource, IsSet)

\* C5, amended: for the Workspace and WorkspaceFolder scopes inspect returns
\* the persisted override when one is present and not '', else the host's
\* value; globalValue is the host's; with no resource all three are the
\* host's.
C5_InspectNonEmptyOverride ==
    lastOp.op = "inspect" => lastOp.result = InspectAs(lastOp.resource, NonEmpty)

\* An inspect with a workspace file open where both scopes have a non-empty
\* override that differs from the host's set value, and the overrides won.
C5_Witness ==
    /\ lastOp.op = "inspect"
    /\ getSettingsUri(lastOp.resource) # undefined
    /\ workspace.workspaceFile # undefined
    /\ LET resource == getSettingsUri(lastOp.resource)
           host == hostInspect(resource)
       IN  /\ NonEmpty(storage[getSettingKey(resource, "Workspace")])
           /\ NonEmpty(storage[getSettingKey(resource, "WorkspaceFolder")])
           /\ NonEmpty(host.workspaceValue) /\ NonEmpty(host.workspaceFolderValue)
           /\ host.workspaceValue # storage[getSettingKey(resource, "Workspace")]
           /\ host.workspaceFolderValue # storage[getSettingKey(resource, "WorkspaceFolder")]
           /\ lastOp.result.workspaceValue = storage[getSettingKey(resource, "Workspace")]
           /\ lastOp.result.workspaceFolderValue =
                 storage[getSettingKey(resource, "WorkspaceFolder")]

----------------------------------------------------------------------------
(* Properties of update and of change notification, checked under Spec     *)
(* and FairSpec.                                                           *)

Scopes == {"Workspace", "WorkspaceFolder"}

OtherScope(configTarget) == IF configTarget = "Workspace" THEN "WorkspaceFolder" ELSE "Workspace"

\* The key an update of resource r at scope t reads and writes.
KeyOf(r, t) == getSettingKey(getSettingsUri(r), t)

\* The value inspect reports for a scope.
Inspected(r, t) ==
    IF t = "Workspace" THEN inspect(r).workspaceValue ELSE inspect(r).workspaceFolderValue

HostValue(r, t) ==
    IF t = "Workspace" THEN hostInspect(getSettingsUri(r)).workspaceValue
    ELSE hostInspect(getSettingsUri(r)).workspaceFolderValue

\* The events fired for a key by updates.
EventsFor(k) ==
    Cardinality({i \in DOMAIN fired :
        /\ fired[i].configTarget # "Global"
        /\ getSettingKey(fired[i].uri, fired[i].configTarget) = k})

\* The uris the resources resolve to: an update of a resource acts as the
\* update of the uri it resolves to.
ResolvedUris == {getSettingsUri(r) : r \in Resources}

\* The scope of the update call that makes this step, if one does.
UpdateStepAt(targets) == lastOp'.op = "update" /\ lastOp'.configTarget \in targets

C3_Step ==
    /\ \A r \in ResolvedUris \ {undefined}, t \in {u \in Scopes : UpdateStepAt({u})},
          p \in PythonPaths :
          Update(r, t, p) =>
             IF storage[KeyOf(r, t)] = p
             THEN UNCHANGED <<storage, fired, suspended>>
             ELSE /\ storage' = [storage EXCEPT ![KeyOf(r, t)] = p]
                  /\ fired' = fired
                  /\ Len(suspended') = Len(suspended) + 1
                  /\ SubSeq(suspended', 1, Len(suspended)) = suspended
                  /\ suspended'[Len(suspended')].resource = getSettingsUri(r)
                  /\ suspended'[Len(suspended')].configTarget = t
    /\ \A i \in DOMAIN suspended :
          (lastOp'.op = "resume" /\ UpdateResume(i)) =>
             /\ fired' = Append(fired, [uri |-> suspended[i].resource,
                                        configTarget |-> suspended[i].configTarget])
             /\ Len(suspended') = Len(suspended) - 1
             /\ storage' = storage

\* C3: a Workspace/WorkspaceFolder update with a resolvable resource writes
\* nothing and fires nothing when the value equals the persisted one; when
\* it differs the value is written and the call fires exactly one event,
\* {uri: the resolved resource, configTarget: the scope}, on its resumption.
\* So the same update repeated at once fires no second event.
C3_UpdateFiresOnChangeOnly == [][C3_Step]_vars

\* An update whose event has fired, followed by an update that found the
\* value unchanged and with nothing left to fire.
C3_Witness ==
    /\ lastOp.op = "update"
    /\ lastOp.configTarget \in Scopes
    /\ lastOp.outcome = "unchanged"
    /\ Len(fired) = 1
    /\ fired[1].configTarget \in Scopes
    /\ fired[1].uri # undefined
    /\ suspended = <<>>

C4_Step ==
    \A r \in {x \in Resources : getSettingsUri(x) = undefined},
       t \in {u \in Scopes : UpdateStepAt({u})}, p \in PythonPaths :
        Update(r, t, p) =>
            /\ UNCHANGED <<storage, configuration, hostEvents, fired, suspended>>
            /\ traceErrors' = traceErrors + 1

\* C4: a Workspace/WorkspaceFolder update when no resource resolves leaves
\* store and host configuration unchanged, fires and schedules no event,
\* and logs one error.
C4_NoResourceIsNoOp == [][C4_Step]_vars

\* Such an update has run, with a non-empty value, in an empty workspace
\* whose workspace file is open.
C4_Witness ==
    /\ lastOp.op = "update"
    /\ lastOp.outcome = "noResource"
    /\ workspace.workspaceFile # undefined
    /\ traceErrors = 2

C6_Step ==
    \A r \in ResolvedUris, t \in {u \in ConfigurationTarget : UpdateStepAt({u})},
       p \in PythonPaths :
        Update(r, t, p) =>
            IF t = "Global"
            THEN /\ UNCHANGED <<storage, fired, suspended>>
                 /\ IF configuration.globalValue = p
                    THEN UNCHANGED <<configuration, hostEvents>>
                    ELSE configuration' = [configuration EXCEPT !.globalValue = p]
            ELSE /\ UNCHANGED <<configuration, hostEvents>>
                 /\ \A k \in SettingKeys :
                       storage'[k] # storage[k] =>
                          getSettingsUri(r) # undefined /\ k = KeyOf(r, t)

\* C6: a Global update writes only the host's global value, and only when
\* the value differs from it, leaves the store unchanged and fires nothing
\* itself; a Workspace/WorkspaceFolder update writes only the store, under
\* the derived key, and leaves the host configuration unchanged.
C6_UpdateRoutesToOneStore == [][C6_Step]_vars

\* A Global update has written the host while an override is persisted.
C6_Witness ==
    /\ lastOp.op = "update"
    /\ lastOp.configTarget = "Global"
    /\ lastOp.outcome = "written"
    /\ configuration.globalValue = PathA
    /\ \E k \in SettingKeys : storage[k] = PathB

\* C7: under every interleaving of update calls, the events fired for a key
\* never outnumber the changes of the value persisted under the key.
C7_EventsAtMostChanges ==
    \A k \in SettingKeys : EventsFor(k) <= changed[k]

\* Two update calls on one key are suspended at once, the second having run
\* its comparison and written another value while the first was suspended.
C7_Witness ==
    /\ Len(suspended) = 2
    /\ getSettingKey(suspended[1].resource, suspended[1].configTarget)
         = getSettingKey(suspended[2].resource, suspended[2].configTarget)
    /\ suspended[1].pythonPath # suspended[2].pythonPath

GlobalWritten ==
    /\ lastOp.op = "update"
    /\ lastOp.configTarget = "Global"
    /\ lastOp.outcome = "written"

GlobalEventFired ==
    /\ lastOp.op = "onDidChangeConfiguration"
    /\ lastOp.event.affectsDefaultInterpreterPath
    /\ fired # <<>>
    /\ fired[Len(fired)] = [uri |-> undefined, configTarget |-> "Global"]

C8_Step ==
    /\ (lastOp'.op = "onDidChangeConfiguration" /\ HostDeliver) =>
          IF Head(hostEvents).affectsDefaultInterpreterPath
          THEN fired' = Append(fired, [uri |-> undefined, configTarget |-> "Global"])
          ELSE fired' = fired
    /\ \A r \in ResolvedUris, p \in PythonPaths :
          (UpdateStepAt({"Global"}) /\ Update(r, "Global", p)) =>
             /\ fired' = fired
             /\ configuration.globalValue = p => hostEvents' = hostEvents

\* C8: onDidChangeConfiguration fires exactly one event {uri: undefined,
\* configTarget: Global} when the host's event affects
\* python.defaultInterpreterPath and nothing otherwise; a Global update
\* fires nothing itself, queues nothing when the value is unchanged, and
\* when it wrote a differing value the event follows once the host delivers
\* its notification.
C8_GlobalChangeGoesThroughHost ==
    /\ [][C8_Step]_vars
    /\ (GlobalWritten ~> GlobalEventFired)

\* The host has delivered the notification of a Global update and the
\* Global event is the one fired last.
C8_Witness ==
    /\ GlobalEventFired
    /\ configuration.globalValue = PathB
    /\ hostEvents = <<>>

C9_Keys ==
    \A f \in OpenFolders :
        IF workspace.workspaceFile = undefined
        THEN getSettingKey(Uri(f, ""), "Workspace") = getSettingKey(Uri(f, ""), "WorkspaceFolder")
        ELSE getSettingKey(Uri(f, ""), "Workspace") # getSettingKey(Uri(f, ""), "WorkspaceFolder")

C9_Step ==
    \A r \in ResolvedUris \ {undefined}, t \in {u \in Scopes : UpdateStepAt({u})},
       p \in PythonPaths :
        Update(r, t, p) =>
            IF workspace.workspaceFile # undefined
            THEN /\ storage'[KeyOf(r, OtherScope(t))] = storage[KeyOf(r, OtherScope(t))]
                 /\ Inspected(r, OtherScope(t))' = Inspected(r, OtherScope(t))
            ELSE /\ storage'[KeyOf(r, "Workspace")] = p
                 /\ storage'[KeyOf(r, "WorkspaceFolder")] = p

\* C9: the Workspace and WorkspaceFolder keys of a resource are equal when
\* no workspace file is open and differ when one is.  With a workspace file
\* an update at one scope leaves the value persisted and inspected for the
\* other scope unchanged; without one, an update at either scope sets the
\* value persisted for both.
C9_KeysSharedWithoutWorkspaceFile == []C9_Keys /\ [][C9_Step]_vars

\* With no workspace file, a Workspace update has written a value that the
\* WorkspaceFolder scope now reads, over a different host value.
C9_Witness ==
    /\ workspace.workspaceFile = undefined
    /\ lastOp.op = "update"
    /\ lastOp.configTarget = "Workspace"
    /\ lastOp.outcome = "written"
    /\ \E r \in Resources :
          /\ getSettingsUri(r) # undefined
          /\ inspect(r).workspaceFolderValue = PathB
          /\ HostValue(r, "WorkspaceFolder") = PathA

\* inspect shows the write of a resumed call: its value when that is not
\* empty, the host's value for the scope when the override was cleared.
Reflects(call) ==
    /\ NonEmpty(call.pythonPath) =>
          Inspected(call.resource, call.configTarget) = call.pythonPath
    /\ call.pythonPath = undefined =>
          Inspected(call.resource, call.configTarget)
             = HostValue(call.resource, call.configTarget)

\* C10 as stated: when an update's event has fired, inspect reflects that
\* update's write.
C10_Original == lastOp.op = "resume" => Reflects(lastOp.call)

\* C10, amended: the event of an update fires after its write; when it
\* fires, inspect reflects that write provided no other update call has
\* changed the value under the same key since.
C10_ReflectsLatestWrite ==
    lastOp.op = "resume" =>
        LET key == getSettingKey(lastOp.call.resource, lastOp.call.configTarget)
        IN  /\ lastOp.call.write <= changed[key]
            /\ lastOp.call.write = changed[key] =>
                  /\ storage[key] = lastOp.call.pythonPath
                  /\ Reflects(lastOp.call)

\* An update that cleared an override has fired its event, and inspect
\* shows the host's value for the scope.
C10_Witness ==
    /\ lastOp.op = "resume"
    /\ lastOp.call.pythonPath = undefined
    /\ lastOp.call.write = 2
    /\ Inspected(lastOp.call.resource, lastOp.call.configTarget) \in {PathA, PathB}

====
